---- MODULE Spec2Model ----
(***************************************************************************)
(* A model of EnergyCal_NN_MLP.py, the ePIC BHCal energy-calibration MLP   *)
(* script.  The script is a straight-line program with four pieces of      *)
(* logic, each modelled as its own state machine over its own variables:   *)
(*   SpecScale  the feature Scaler                    (lines 72-79)        *)
(*   SpecBuild  the network architecture builder      (lines 162-174)      *)
(*   SpecTrain  the training loop                     (lines 195-214)      *)
(*   SpecEval   the bucket discovery and filling loops (lines 236-252)     *)
(* While one piece runs, the variables of the others keep the values they  *)
(* have in the script as configured.                                       *)
(*                                                                         *)
(* Numbers.  Energies are counted in eighths of a GeV, so that 0.125,      *)
(* 0.25 and 0.5 are the integers 1, 2 and 4; all of them are exact as      *)
(* binary floating point, so the comparisons of the code are the integer   *)
(* comparisons of the model.  The decay factor is a fraction num/den with  *)
(* den a power of two, for which neuron_decay*h1 is exact as well.         *)
(***************************************************************************)
EXTENDS Integers, Sequences, FiniteSets, TLC

VARIABLES
    \* ---- network builder
    inp_size,       \* width of the input layer (line 138)
    h1,             \* current hidden width (lines 45, 169)
    h1_config,      \* the hyperparameter h1 as configured, before line 169 overwrites it
    hidden_layers,  \* hyperparameter (line 44)
    neuron_decay,   \* hyperparameter (line 46), a fraction <<num, den>>
    dropout,        \* hyperparameter (line 59), 0 for 0.0 and positive otherwise
    layers,         \* the list of stages (line 162)
    i,              \* loop variable of line 164 (next value the range yields)
    bpc,            \* position in the builder
    \* ---- trainer
    num_epochs,     \* hyperparameter (line 40)
    n,              \* loop variable of line 203 (next value the range yields)
    tpc,            \* position in the training loop
    loss,           \* the loss tensor of the current epoch (line 205)
    losslist,       \* line 195
    epochlist,      \* line 196
    minloss,        \* line 200
    lr,             \* number of times the scheduler reduced the learning rate
    calls,          \* how often each library step was called
    sched_in,       \* the metrics fed to scheduler.step, in order
    \* ---- evaluator
    y_final,        \* true values of the evaluation samples (line 227)
    des_y,          \* predicted values of the evaluation samples (line 229)
    energy_list,    \* line 236
    hist_list,      \* line 237
    index,          \* loop variable of lines 239 and 247 (next index enumerate yields)
    epc,            \* position in the evaluator
    \* ---- scaler
    x_tensor,       \* the training table (line 143) and then its scaling (line 144)
    x_tensor_test,  \* the evaluation table (line 150) and then its scaling (line 151)
    spc             \* position in the scaling of the two tables

buildVars == <<inp_size, h1, h1_config, hidden_layers, neuron_decay, dropout, layers, i, bpc>>
trainVars == <<num_epochs, n, tpc, loss, losslist, epochlist, minloss, lr, calls, sched_in>>
evalVars  == <<y_final, des_y, energy_list, hist_list, index, epc>>
scaleVars == <<x_tensor, x_tensor_test, spc>>
vars == <<buildVars, trainVars, evalVars, scaleVars>>

(***************************************************************************)
(* Bounds of the model.                                                    *)
(***************************************************************************)
MaxInp == 2           \* input widths 1..MaxInp
MaxWidth == 4         \* first hidden widths 1..MaxWidth, and the configured 256
MaxHidden == 3        \* hidden-layer counts 0..MaxHidden
MaxDecayNum == 6      \* decay numerators 0..MaxDecayNum

(***************************************************************************)
(* Hyperparameters as the script sets them.                                *)
(***************************************************************************)
H1Default == 256
HiddenLayersDefault == 3
InpSizeDefault == 18
NeuronDecayDefault == <<1, 2>>

DecayDens == {2, 4}
Decays == {<<a, b>> : a \in 0..MaxDecayNum, b \in DecayDens}
Widths == (1..MaxWidth) \cup {H1Default}
DropoutValues == {0, 1}

(***************************************************************************)
(* math.ceil(neuron_decay*h1) for neuron_decay = d[1]/d[2] >= 0.           *)
(***************************************************************************)
\* A faulty variant of CeilMul: the product is rounded down, as by np.floor.
CeilFloor(d, w) == (d[1] * w) \div d[2]

\* A faulty variant of CeilMul: the ceiling taken as the integer part plus one.
CeilPlusOne(d, w) == ((d[1] * w) \div d[2]) + 1

\* lines 168-169: math.ceil(neuron_decay*h1)
CeilMul(d, w) == ((d[1] * w) + d[2] - 1) \div d[2]

Linear(a, b) == <<"Linear", a, b>>
LeakyReLU == <<"LeakyReLU">>
Dropout == <<"Dropout">>

BuildIdle ==
    /\ inp_size = InpSizeDefault
    /\ h1 = H1Default
    /\ h1_config = H1Default
    /\ hidden_layers = HiddenLayersDefault
    /\ neuron_decay = NeuronDecayDefault
    /\ dropout = 0
    /\ layers = << >>
    /\ i = 0
    /\ bpc = "first"

BuildInit ==
    /\ inp_size \in 1..MaxInp
    /\ h1 \in Widths
    /\ h1_config = h1
    /\ hidden_layers \in 0..MaxHidden
    /\ neuron_decay \in Decays
    /\ dropout \in DropoutValues
    /\ layers = << >>
    /\ i = 0
    /\ bpc = "first"

\* line 162: layers = [nn.Linear(inp_size,h1)]
BuildFirst ==
    /\ bpc = "first"
    /\ layers' = <<Linear(inp_size, h1)>>
    /\ i' = 0
    /\ bpc' = "for"
    /\ UNCHANGED <<inp_size, h1, h1_config, hidden_layers, neuron_decay, dropout>>

\* line 164: for i in range(hidden_layers)
BuildFor ==
    /\ bpc = "for"
    /\ bpc' = IF i < hidden_layers THEN "act" ELSE "tail"
    /\ UNCHANGED <<inp_size, h1, h1_config, hidden_layers, neuron_decay, dropout, layers, i>>

\* line 165: layers.append(nn.LeakyReLU(leakRate))
BuildActivation ==
    /\ bpc = "act"
    /\ layers' = Append(layers, LeakyReLU)
    /\ bpc' = IF dropout > 0 THEN "drop" ELSE "lin"
    /\ UNCHANGED <<inp_size, h1, h1_config, hidden_layers, neuron_decay, dropout, i>>

\* lines 166-167: if dropout > 0.0: layers.append(nn.Dropout(dropout))
BuildDropout ==
    /\ bpc = "drop"
    /\ layers' = Append(layers, Dropout)
    /\ bpc' = "lin"
    /\ UNCHANGED <<inp_size, h1, h1_config, hidden_layers, neuron_decay, dropout, i>>

\* lines 168-169: the hidden linear stage, and the width of the next one
BuildHidden ==
    /\ bpc = "lin"
    /\ layers' = Append(layers, Linear(h1, CeilMul(neuron_decay, h1)))
    /\ h1' = CeilMul(neuron_decay, h1)
    /\ i' = i + 1
    /\ bpc' = "for"
    /\ UNCHANGED <<inp_size, h1_config, hidden_layers, neuron_decay, dropout>>

\* lines 171-174: the last activation, the output stage, and the model
BuildTail ==
    /\ bpc = "tail"
    /\ layers' = Append(Append(layers, LeakyReLU), Linear(h1, 1))
    /\ bpc' = "done"
    /\ UNCHANGED <<inp_size, h1, h1_config, hidden_layers, neuron_decay, dropout, i>>


(***************************************************************************)
(* The trainer.  The numeric work is the library's: a forward pass, the    *)
(* loss, the gradients and the two steps are counted, the loss of an epoch *)
(* is any value of LossValues (in the unit of minloss = 100.0), and        *)
(* scheduler.step either keeps the learning rate or reduces it once.       *)
(***************************************************************************)
MaxEpochs == 3        \* epoch counts 0..MaxEpochs

NumEpochsDefault == 10000
MinlossStart == 100
LossValues == {0, 3, 100, 150}

NoCalls == [forward |-> 0, loss_fn |-> 0, zero_grad |-> 0, backward |-> 0,
            opt_step |-> 0, sched_step |-> 0]

TrainIdle ==
    /\ num_epochs = NumEpochsDefault
    /\ n = 0
    /\ tpc = "for"
    /\ loss = "none"
    /\ losslist = << >>
    /\ epochlist = << >>
    /\ minloss = MinlossStart
    /\ lr = 0
    /\ calls = NoCalls
    /\ sched_in = << >>

\* lines 190-200, with num_epochs any count up to MaxEpochs
TrainInit ==
    /\ num_epochs \in 0..MaxEpochs
    /\ n = 0
    /\ tpc = "for"
    /\ loss = "none"
    /\ losslist = << >>
    /\ epochlist = << >>
    /\ minloss = MinlossStart
    /\ lr = 0
    /\ calls = NoCalls
    /\ sched_in = << >>

\* A faulty variant of HasNextEpoch: the loop gives up once the loss has reached zero.
StopsAtZeroLoss ==
    /\ n < num_epochs
    /\ (losslist = << >> \/ losslist[Len(losslist)] > 0)

\* line 203: range(num_epochs) yields another n
HasNextEpoch == n < num_epochs

\* A faulty variant of SchedMetric: the scheduler is fed the best loss seen.
SchedMetricBest == minloss

\* line 214: the metric handed to scheduler.step
SchedMetric == loss

Called(step) == [calls EXCEPT ![step] = @ + 1]

\* line 203: for n in pbar
TrainFor ==
    /\ tpc = "for"
    /\ tpc' = IF HasNextEpoch THEN "forward" ELSE "done"
    /\ UNCHANGED <<num_epochs, n, loss, losslist, epochlist, minloss, lr, calls, sched_in>>

\* line 204: y_pred = model(x_tensor)
TrainForward ==
    /\ tpc = "forward"
    /\ calls' = Called("forward")
    /\ tpc' = "loss"
    /\ UNCHANGED <<num_epochs, n, loss, losslist, epochlist, minloss, lr, sched_in>>

\* line 205: loss = loss_fn(y_pred, y_tensor)
TrainLoss ==
    /\ tpc = "loss"
    /\ \E v \in LossValues : loss' = v
    /\ calls' = Called("loss_fn")
    /\ tpc' = "zero_grad"
    /\ UNCHANGED <<num_epochs, n, losslist, epochlist, minloss, lr, sched_in>>

\* line 206: optimizer.zero_grad()
TrainZeroGrad ==
    /\ tpc = "zero_grad"
    /\ calls' = Called("zero_grad")
    /\ tpc' = "backward"
    /\ UNCHANGED <<num_epochs, n, loss, losslist, epochlist, minloss, lr, sched_in>>

\* line 207: loss.backward()
TrainBackward ==
    /\ tpc = "backward"
    /\ calls' = Called("backward")
    /\ tpc' = "opt_step"
    /\ UNCHANGED <<num_epochs, n, loss, losslist, epochlist, minloss, lr, sched_in>>

\* line 208: optimizer.step()
TrainOptStep ==
    /\ tpc = "opt_step"
    /\ calls' = Called("opt_step")
    /\ tpc' = "describe"
    /\ UNCHANGED <<num_epochs, n, loss, losslist, epochlist, minloss, lr, sched_in>>

\* line 209: pbar.set_description(...), which reads loss and the learning rate
TrainDescribe ==
    /\ tpc = "describe"
    /\ tpc' = "append_loss"
    /\ UNCHANGED <<num_epochs, n, loss, losslist, epochlist, minloss, lr, calls, sched_in>>

\* line 210: losslist.append(loss.item())
TrainAppendLoss ==
    /\ tpc = "append_loss"
    /\ losslist' = Append(losslist, loss)
    /\ tpc' = "minloss"
    /\ UNCHANGED <<num_epochs, n, loss, epochlist, minloss, lr, calls, sched_in>>

\* lines 211-212: if loss.item() < minloss: minloss = loss.item()
TrainMinloss ==
    /\ tpc = "minloss"
    /\ minloss' = IF loss < minloss THEN loss ELSE minloss
    /\ tpc' = "append_epoch"
    /\ UNCHANGED <<num_epochs, n, loss, losslist, epochlist, lr, calls, sched_in>>

\* line 213: epochlist.append(n)
TrainAppendEpoch ==
    /\ tpc = "append_epoch"
    /\ epochlist' = Append(epochlist, n)
    /\ tpc' = "sched_step"
    /\ UNCHANGED <<num_epochs, n, loss, losslist, minloss, lr, calls, sched_in>>

\* line 214: scheduler.step(loss), the last statement of the body
TrainSchedStep ==
    /\ tpc = "sched_step"
    /\ sched_in' = Append(sched_in, SchedMetric)
    /\ \E reduce \in BOOLEAN : lr' = IF reduce THEN lr + 1 ELSE lr
    /\ calls' = Called("sched_step")
    /\ n' = n + 1
    /\ tpc' = "for"
    /\ UNCHANGED <<num_epochs, loss, losslist, epochlist, minloss>>


(***************************************************************************)
(* The evaluator.  np.arange(0,30,0.5) is the grid GridStart,              *)
(* GridStart + GridStep, ... below GridStop, in eighths of a GeV; 0.25 is  *)
(* HalfWindow.                                                             *)
(***************************************************************************)
MaxSamples == 3       \* evaluation sets of 0..MaxSamples samples

GridStart == 0
GridStop == 240
GridStep == 4
HalfWindow == 2

\* The evaluation samples of the model, each a true value and a predicted value:
\* true values of -0.25, 0.125, 0.25, 0.375, 29.625 and 29.75 GeV, that is below the
\* grid, inside the windows of 0, 0.5 and 29.5, on a window boundary and above the grid.
EvalSamples == {<<-2, 10>>, <<1, 10>>, <<1, 20>>, <<2, 20>>, <<3, 10>>, <<237, 20>>, <<238, 10>>}
PredValues == {s[2] : s \in EvalSamples}

\* len(np.arange(GridStart, GridStop, GridStep))
GridCount == (GridStop - GridStart + GridStep - 1) \div GridStep

\* np.arange(0,30,0.5)[j], j counted from 0
GridAt(j) == GridStart + j * GridStep

\* k in energy_list
Contains(el, k) == \E b \in 1..Len(el) : el[b] = k

\* A faulty variant of DiscoverCond: the test for a known center looks at the last one only,
\* as if the true values came in ascending order.
DiscoverCondSorted(item_true, k, el) ==
    /\ item_true > k - HalfWindow
    /\ item_true < k + HalfWindow
    /\ (el = << >> \/ k > el[Len(el)])

\* A faulty variant of DiscoverCond: the lower edge of the window is missing.
DiscoverCondNoLower(item_true, k, el) ==
    /\ item_true < k + HalfWindow
    /\ ~Contains(el, k)

\* line 242: the condition under which center k is registered
DiscoverCond(item_true, k, el) ==
    /\ item_true > k - HalfWindow
    /\ item_true < k + HalfWindow
    /\ ~Contains(el, k)

\* A faulty variant of FillCond: the edges of the window count as inside.
FillCondClosed(item_true, j) ==
    /\ item_true >= j - HalfWindow
    /\ item_true <= j + HalfWindow

\* A faulty variant of FillCond: the window is as wide as the grid step on either side.
FillCondWide(item_true, j) ==
    /\ item_true > j - GridStep
    /\ item_true < j + GridStep

\* line 251: the condition under which a prediction goes to the bucket of center j
FillCond(item_true, j) ==
    /\ item_true > j - HalfWindow
    /\ item_true < j + HalfWindow

\* lines 242-244: the body of the scan for center k; st is the pair of energy_list
\* and hist_list
Register(item_true, k, st) ==
    IF DiscoverCond(item_true, k, st.e)
    THEN [e |-> Append(st.e, k), h |-> Append(st.h, << >>)]
    ELSE st

\* line 241: for k in np.arange(0,30,0.5), here for the grid indices lo..hi-1 in
\* ascending order: the lower half of the range first, then the upper half.
\* (CHOOSE out \in {F(x) : x \in {e}} : TRUE is F(e), with e computed first: one
\* statement after another.)
RECURSIVE ScanRange(_, _, _, _)
ScanRange(item_true, st, lo, hi) ==
    IF hi <= lo THEN st
    ELSE IF hi = lo + 1 THEN Register(item_true, GridAt(lo), st)
    ELSE CHOOSE out \in {ScanRange(item_true, half, (lo + hi) \div 2, hi) :
                            half \in {ScanRange(item_true, st, lo, (lo + hi) \div 2)}} : TRUE

\* lines 241-244: the scan of the whole grid for one sample
ScanGrid(item_true, st) == ScanRange(item_true, st, 0, GridCount)

\* lines 250-252: the scan of energy_list for one sample, from bucket b on
RECURSIVE FillBuckets(_, _, _, _, _)
FillBuckets(item_true, item_calc, el, hl, b) ==
    IF b > Len(el) THEN hl
    ELSE FillBuckets(item_true, item_calc, el,
                     IF FillCond(item_true, el[b])
                     THEN [hl EXCEPT ![b] = Append(@, item_calc)]
                     ELSE hl,
                     b + 1)

\* lines 239-244 as a whole: the discovery loop over the samples from position idx on
RECURSIVE DiscoverFrom(_, _, _)
DiscoverFrom(y, st, idx) ==
    IF idx >= Len(y) THEN st
    ELSE CHOOSE out \in {DiscoverFrom(y, next, idx + 1) :
                            next \in {ScanGrid(y[idx + 1], st)}} : TRUE

\* lines 247-252 as a whole: the filling loop over the samples from position idx on
RECURSIVE FillFrom(_, _, _, _, _)
FillFrom(y, d, el, hl, idx) ==
    IF idx >= Len(y) THEN hl
    ELSE CHOOSE out \in {FillFrom(y, d, el, next, idx + 1) :
                            next \in {FillBuckets(y[idx + 1], d[idx + 1], el, hl, 1)}} : TRUE

\* lines 236-252 as a whole, for true values y and predictions d
Evaluate(y, d) ==
    CHOOSE out \in {[e |-> st.e, h |-> FillFrom(y, d, st.e, st.h, 0)] :
                       st \in {DiscoverFrom(y, [e |-> << >>, h |-> << >>], 0)}} : TRUE

EvalIdle ==
    /\ y_final = << >>
    /\ des_y = << >>
    /\ energy_list = << >>
    /\ hist_list = << >>
    /\ index = 0
    /\ epc = "discover"

\* lines 227-237, with any evaluation set of up to MaxSamples samples
EvalInit ==
    /\ \E len \in 0..MaxSamples : \E samples \in [1..len -> EvalSamples] :
          /\ y_final = [s \in 1..len |-> samples[s][1]]
          /\ des_y = [s \in 1..len |-> samples[s][2]]
    /\ energy_list = << >>
    /\ hist_list = << >>
    /\ index = 0
    /\ epc = "discover"

\* lines 239-244: one sample of the discovery loop
EvalDiscover ==
    /\ epc = "discover"
    /\ index < Len(y_final)
    /\ LET st == ScanGrid(y_final[index + 1], [e |-> energy_list, h |-> hist_list])
       IN  /\ energy_list' = st.e
           /\ hist_list' = st.h
    /\ index' = index + 1
    /\ UNCHANGED <<y_final, des_y, epc>>

\* line 239: enumerate(y_final) is exhausted; line 247 starts over
EvalDiscoverEnd ==
    /\ epc = "discover"
    /\ index >= Len(y_final)
    /\ index' = 0
    /\ epc' = "fill"
    /\ UNCHANGED <<y_final, des_y, energy_list, hist_list>>

\* lines 247-252: one sample of the filling loop
EvalFill ==
    /\ epc = "fill"
    /\ index < Len(y_final)
    /\ hist_list' = FillBuckets(y_final[index + 1], des_y[index + 1], energy_list, hist_list, 1)
    /\ index' = index + 1
    /\ UNCHANGED <<y_final, des_y, energy_list, epc>>

\* line 247: enumerate(y_final) is exhausted
EvalFillEnd ==
    /\ epc = "fill"
    /\ index >= Len(y_final)
    /\ epc' = "done"
    /\ UNCHANGED <<y_final, des_y, energy_list, hist_list, index>>


(***************************************************************************)
(* The Scaler.  A table is a sequence of rows of NumCols numbers.  The     *)
(* results are kept as the exact fractions and radicands they are made of: *)
(*   mean        the fraction sum/rows                                     *)
(*   std         torch.std's default, the square root of                   *)
(*               ss / (rows*rows*(rows-1)) with ss the sum of the squares  *)
(*               of rows*x - sum; for one row that is 0/0, a NaN           *)
(*   transform   (dev/rows) / (std + 1e-8), a NaN when std is one          *)
(***************************************************************************)
MaxRows == 2          \* tables of 1..MaxRows rows
NumCols == 2          \* columns of a table

CellValues == {1, 2}

Tables == UNION {[1..r -> [1..NumCols -> CellValues]] : r \in 1..MaxRows}

RECURSIVE ColSum(_, _, _)
ColSum(val, c, r) == IF r = 0 THEN 0 ELSE val[r][c] + ColSum(val, c, r - 1)

RECURSIVE ColSquares(_, _, _)
ColSquares(val, c, r) ==
    IF r = 0 THEN 0
    ELSE LET dev == Len(val) * val[r][c] - ColSum(val, c, Len(val))
         IN  dev * dev + ColSquares(val, c, r - 1)

\* line 76: torch.mean(val, dim=dims), column c
Mean(val, c) == [num |-> ColSum(val, c, Len(val)), den |-> Len(val)]

\* line 77: torch.std(val, dim=dims), column c
Std(val, c) ==
    [nan |-> (Len(val) - 1 = 0),
     num |-> ColSquares(val, c, Len(val)),
     den |-> Len(val) * Len(val) * (Len(val) - 1)]

\* lines 78-79: (val - mean) / (std + 1e-8)
Scaler(val) ==
    [r \in 1..Len(val) |->
        [c \in 1..NumCols |->
            [nan |-> Std(val, c).nan,
             dev |-> Mean(val, c).den * val[r][c] - Mean(val, c).num,
             rows |-> Mean(val, c).den,
             std |-> Std(val, c)]]]

ScaleIdle ==
    /\ x_tensor = << >>
    /\ x_tensor_test = << >>
    /\ spc = "train"

\* lines 142-143 and 149-150, with any two tables
ScaleInit ==
    /\ x_tensor \in Tables
    /\ x_tensor_test \in Tables
    /\ spc = "train"

\* line 144: x_tensor = Scaler(x_tensor)
ScaleTrain ==
    /\ spc = "train"
    /\ x_tensor' = Scaler(x_tensor)
    /\ spc' = "test"
    /\ UNCHANGED x_tensor_test

\* line 151: x_tensor_test = Scaler(x_tensor_test)
ScaleTest ==
    /\ spc = "test"
    /\ x_tensor_test' = Scaler(x_tensor_test)
    /\ spc' = "done"
    /\ UNCHANGED x_tensor


(***************************************************************************)
(* The four specifications.                                                *)
(***************************************************************************)
InitBuild == BuildInit /\ TrainIdle /\ EvalIdle /\ ScaleIdle
NextBuild ==
    \/ BuildFirst /\ UNCHANGED <<trainVars, evalVars, scaleVars>>
    \/ BuildFor /\ UNCHANGED <<trainVars, evalVars, scaleVars>>
    \/ BuildActivation /\ UNCHANGED <<trainVars, evalVars, scaleVars>>
    \/ BuildDropout /\ UNCHANGED <<trainVars, evalVars, scaleVars>>
    \/ BuildHidden /\ UNCHANGED <<trainVars, evalVars, scaleVars>>
    \/ BuildTail /\ UNCHANGED <<trainVars, evalVars, scaleVars>>
SpecBuild == InitBuild /\ [][NextBuild]_vars

InitTrain == BuildIdle /\ TrainInit /\ EvalIdle /\ ScaleIdle
NextTrain ==
    \/ TrainFor /\ UNCHANGED <<buildVars, evalVars, scaleVars>>
    \/ TrainForward /\ UNCHANGED <<buildVars, evalVars, scaleVars>>
    \/ TrainLoss /\ UNCHANGED <<buildVars, evalVars, scaleVars>>
    \/ TrainZeroGrad /\ UNCHANGED <<buildVars, evalVars, scaleVars>>
    \/ TrainBackward /\ UNCHANGED <<buildVars, evalVars, scaleVars>>
    \/ TrainOptStep /\ UNCHANGED <<buildVars, evalVars, scaleVars>>
    \/ TrainDescribe /\ UNCHANGED <<buildVars, evalVars, scaleVars>>
    \/ TrainAppendLoss /\ UNCHANGED <<buildVars, evalVars, scaleVars>>
    \/ TrainMinloss /\ UNCHANGED <<buildVars, evalVars, scaleVars>>
    \/ TrainAppendEpoch /\ UNCHANGED <<buildVars, evalVars, scaleVars>>
    \/ TrainSchedStep /\ UNCHANGED <<buildVars, evalVars, scaleVars>>
SpecTrain == InitTrain /\ [][NextTrain]_vars

InitEval == BuildIdle /\ TrainIdle /\ EvalInit /\ ScaleIdle
NextEval ==
    \/ EvalDiscover /\ UNCHANGED <<buildVars, trainVars, scaleVars>>
    \/ EvalDiscoverEnd /\ UNCHANGED <<buildVars, trainVars, scaleVars>>
    \/ EvalFill /\ UNCHANGED <<buildVars, trainVars, scaleVars>>
    \/ EvalFillEnd /\ UNCHANGED <<buildVars, trainVars, scaleVars>>
SpecEval == InitEval /\ [][NextEval]_vars

InitScale == BuildIdle /\ TrainIdle /\ EvalIdle /\ ScaleInit
NextScale ==
    \/ ScaleTrain /\ UNCHANGED <<buildVars, trainVars, evalVars>>
    \/ ScaleTest /\ UNCHANGED <<buildVars, trainVars, evalVars>>
SpecScale == InitScale /\ [][NextScale]_vars

(***************************************************************************)
(* Claims about the network builder, checked under SpecBuild.              *)
(***************************************************************************)
IsLinear(l) == l[1] = "Linear"

\* the linear stages of layers, in order; stage s maps width [2] to width [3]
LinearStages == SelectSeq(layers, IsLinear)

\* the linear stages appended by the loop of line 164 are stages 2..i+1
HiddenStages == 2..(i + 1)

\* v is the ceiling of d*w: d*w <= v < d*w + 1, in integers
IsCeilOf(v, d, w) == d[1] * w <= d[2] * v /\ d[2] * v < d[1] * w + d[2]

IsHalf(d) == 2 * d[1] = d[2]

Shrinking(d) == 0 < d[1] /\ d[1] < d[2]

\* C1: the linear stages are (input -> w0), (w0 -> w1), ..., (w(L-1) -> wL), (wL -> 1)
\* with w(i+1) = ceil(d * w(i)), so that every linear stage takes the width the one
\* before it puts out; L = 3, w0 = 256, d = 0.5 gives the hidden widths 256, 128, 64, 32
\* and the output width 1, and d = 0.5 on width 3 gives 2.
C1_BuilderShapes ==
    LET lin == LinearStages
    IN  /\ bpc = "first" => lin = << >>
        /\ bpc # "first" => /\ Len(lin) >= 1
                            /\ lin[1] = Linear(inp_size, h1_config)
                            /\ Len(lin) = i + 1 + (IF bpc = "done" THEN 1 ELSE 0)
        /\ \A s \in 2..Len(lin) : lin[s][2] = lin[s - 1][3]
        /\ \A s \in HiddenStages : IsCeilOf(lin[s][3], neuron_decay, lin[s][2])
        /\ \A s \in HiddenStages :
              IsHalf(neuron_decay) /\ lin[s][2] = 3 => lin[s][3] = 2
        /\ bpc = "done" => /\ i = hidden_layers
                           /\ Len(lin) = hidden_layers + 2
                           /\ lin[Len(lin)][3] = 1
        /\ (bpc = "done" /\ hidden_layers = 3 /\ h1_config = 256 /\ IsHalf(neuron_decay))
              => [s \in 1..Len(lin) |-> lin[s][3]] = <<256, 128, 64, 32, 1>>

\* C1 witness: the configured network (3 hidden layers, 256, 0.5) is built
C1_Witness ==
    /\ bpc = "done"
    /\ hidden_layers = 3 /\ h1_config = 256 /\ IsHalf(neuron_decay)
    /\ Len(LinearStages) = 5
    /\ LinearStages[4] = Linear(64, 32)
    /\ LinearStages[5] = Linear(32, 1)

\* C2 as stated: with 0 < d < 1 every hidden linear stage puts out strictly less
\* than it takes in.
C2_StrictlyNarrowing ==
    \A s \in HiddenStages :
        Shrinking(neuron_decay) => LinearStages[s][3] < LinearStages[s][2]

\* C2 amended: with 0 < d < 1 no hidden linear stage puts out more than it takes in,
\* and it puts out strictly less when d <= 1/2 and it takes in at least 2.
C2_Narrowing ==
    \A s \in HiddenStages :
        Shrinking(neuron_decay) =>
            /\ LinearStages[s][3] <= LinearStages[s][2]
            /\ (2 * neuron_decay[1] <= neuron_decay[2] /\ LinearStages[s][2] >= 2)
                  => LinearStages[s][3] < LinearStages[s][2]

\* C2 witness: a finished network with d = 1/2 that narrows from 2 to 1 and then
\* stays at width 1
C2_Witness ==
    /\ bpc = "done"
    /\ IsHalf(neuron_decay)
    /\ \E s \in HiddenStages : LinearStages[s] = Linear(2, 1)
    /\ \E s \in HiddenStages : LinearStages[s] = Linear(1, 1)

(***************************************************************************)
(* Claims about the training loop, checked under SpecTrain.                *)
(***************************************************************************)
IsPrefix(a, b) == Len(a) <= Len(b) /\ \A k \in 1..Len(a) : a[k] = b[k]

AtLoopHead == tpc \in {"for", "done"}

C3_TraceState ==
    /\ \A k \in 1..Len(epochlist) : epochlist[k] = k - 1
    /\ AtLoopHead => Len(epochlist) = n /\ Len(losslist) = n
    /\ n <= num_epochs
    /\ tpc = "done" => /\ n = num_epochs
                       /\ Len(epochlist) = num_epochs
                       /\ Len(losslist) = num_epochs

C3_TraceStep ==
    /\ IsPrefix(losslist, losslist') /\ Len(losslist') <= Len(losslist) + 1
    /\ IsPrefix(epochlist, epochlist') /\ Len(epochlist') <= Len(epochlist) + 1
    /\ tpc' = "done" => n = num_epochs

\* C3: when the loop ends, epochlist is 0, 1, ..., num_epochs-1 and losslist has one
\* loss per epoch; in between both lists only grow at their ends, they are equally
\* long whenever an epoch's body has completed, and the loop is left only after
\* num_epochs epochs, whatever the losses.
C3_TrainingTrace == [](C3_TraceState) /\ [][C3_TraceStep]_vars

\* C3 witness: three epochs ran to the end although the first loss was already zero
C3_Witness ==
    /\ tpc = "done"
    /\ num_epochs = 3
    /\ epochlist = <<0, 1, 2>>
    /\ losslist = <<0, 150, 3>>

\* the statements of the loop body that call the library, in the order claimed
TrainOrder == <<"forward", "loss", "zero_grad", "backward", "opt_step", "sched_step">>
CallOf == <<"forward", "loss_fn", "zero_grad", "backward", "opt_step", "sched_step">>

\* at position p of the body, the k-th claimed step of the current epoch is done
Behind(p, k) ==
    CASE p \in {"for", "done"} -> FALSE
      [] p = "forward" -> FALSE
      [] p = "loss" -> k <= 1
      [] p = "zero_grad" -> k <= 2
      [] p = "backward" -> k <= 3
      [] p = "opt_step" -> k <= 4
      [] p \in {"describe", "append_loss", "minloss", "append_epoch", "sched_step"} -> k <= 5

C7_OrderState ==
    /\ \A k \in 1..6 : calls[CallOf[k]] = n + (IF Behind(tpc, k) THEN 1 ELSE 0)
    /\ Len(sched_in) = calls.sched_step
    /\ AtLoopHead => sched_in = losslist
    /\ tpc = "done" => calls.opt_step = num_epochs /\ calls.sched_step = num_epochs

C7_OrderStep ==
    /\ lr' # lr => tpc = "sched_step" /\ tpc' = "for"
    /\ \A k \in 1..6 : calls'[CallOf[k]] # calls[CallOf[k]] =>
          /\ tpc = TrainOrder[k]
          /\ calls'[CallOf[k]] = calls[CallOf[k]] + 1
          /\ \A m \in 1..6 : m # k => calls'[CallOf[m]] = calls[CallOf[m]]
    /\ Len(sched_in') > Len(sched_in) =>
          /\ tpc = "sched_step"
          /\ sched_in' = Append(sched_in, losslist[Len(losslist)])
          /\ Len(losslist) = n + 1

\* C7: in every epoch the forward pass, the loss, the gradient clearing, the
\* back-propagation, one optimizer step and one scheduler step fed that epoch's loss
\* happen once each in this order, the scheduler step being the last statement before
\* the next epoch's forward pass; a complete run has num_epochs optimizer steps and
\* num_epochs scheduler steps, and the learning rate changes in a scheduler step only.
C7_EpochOrder == [](C7_OrderState) /\ [][C7_OrderStep]_vars

\* C7 witness: a complete run of three epochs in which the learning rate was reduced
C7_Witness ==
    /\ tpc = "done"
    /\ num_epochs = 3
    /\ calls.opt_step = 3 /\ calls.sched_step = 3 /\ calls.forward = 3
    /\ lr >= 1
    /\ sched_in = <<150, 3, 100>>

\* C8: after the loop, minloss is the smallest loss of the trace, for every sequence
\* of non-negative losses and every num_epochs >= 1.
C8_MinlossIsSmallest ==
    (tpc = "done" /\ num_epochs >= 1) =>
        /\ \A k \in 1..Len(losslist) : minloss <= losslist[k]
        /\ \E k \in 1..Len(losslist) : minloss = losslist[k]

(***************************************************************************)
(* Claims about the evaluator, checked under SpecEval.                     *)
(***************************************************************************)
\* t lies strictly between c - 0.25 and c + 0.25
StrictlyIn(t, c) == c - 2 < t /\ t < c + 2

\* c is one of 0, 0.5, ..., 29.5
OnGrid(c) == \E j \in 0..59 : c = 4 * j

\* the samples scanned so far by the discovery loop
Scanned == IF epc = "discover" THEN 1..index ELSE 1..Len(y_final)

\* the samples the filling loop has dealt with
Filled ==
    CASE epc = "discover" -> 0
      [] epc = "fill" -> index
      [] epc = "done" -> Len(y_final)

RECURSIVE PredsIn(_, _)
\* the predictions, in sample order, of those of the first m samples whose true value
\* lies strictly in the window of c
PredsIn(c, m) ==
    IF m = 0 THEN << >>
    ELSE IF StrictlyIn(y_final[m], c) THEN Append(PredsIn(c, m - 1), des_y[m])
         ELSE PredsIn(c, m - 1)

RECURSIVE Total(_, _)
\* the number of predictions in the first b buckets of hl
Total(hl, b) == IF b = 0 THEN 0 ELSE Len(hl[b]) + Total(hl, b - 1)

\* C4: every registered center is a grid value whose open window holds the true
\* value of a sample scanned so far, in every state of the discovery loop and
\* after it; so after the filling loop no bucket is empty.
C4_CentersHaveSamples ==
    /\ \A b \in 1..Len(energy_list) :
          /\ OnGrid(energy_list[b])
          /\ \E s \in Scanned : StrictlyIn(y_final[s], energy_list[b])
    /\ epc = "done" => \A b \in 1..Len(hist_list) : hist_list[b] # << >>

\* C4 witness: two buckets were found and filled although one sample sits on a
\* window boundary and registered nothing
C4_Witness ==
    /\ epc = "done"
    /\ y_final = <<2, 237, 1>>
    /\ energy_list = <<236, 0>>
    /\ \A b \in 1..2 : Len(hist_list[b]) = 1

\* C5: after the filling loop each bucket holds exactly the predictions, in sample
\* order, of the samples whose true value lies strictly in the window of its center
\* (and during the loop, of the samples dealt with so far); energy_list has no
\* duplicates and hist_list has one list per center.
C5_BucketContents ==
    /\ Len(hist_list) = Len(energy_list)
    /\ \A a, b \in 1..Len(energy_list) : a # b => energy_list[a] # energy_list[b]
    /\ \A b \in 1..Len(energy_list) : hist_list[b] = PredsIn(energy_list[b], Filled)

\* C5 witness: a bucket holding two predictions in sample order, next to a sample of
\* another bucket
C5_Witness ==
    /\ epc = "done"
    /\ y_final = <<1, 3, 1>>
    /\ des_y = <<20, 10, 10>>
    /\ energy_list = <<0, 4>>
    /\ hist_list = << <<20, 10>>, <<10>> >>

\* the grid centers whose open window holds t
CentersOf(t) == {c \in {4 * j : j \in 0..59} : StrictlyIn(t, c)}

OnBoundaryOrOutside(t) == t <= -2 \/ t >= 238 \/ (t + 2) % 4 = 0

C9_DisjointState ==
    /\ \A s \in 1..Len(y_final) :
          /\ Cardinality(CentersOf(y_final[s])) <= 1
          /\ OnBoundaryOrOutside(y_final[s]) => CentersOf(y_final[s]) = {}
    /\ Len(hist_list) = Len(energy_list)
    /\ Total(hist_list, Len(hist_list)) =
          Cardinality({s \in 1..Filled : CentersOf(y_final[s]) # {}})

C9_DisjointStep ==
    (epc = "fill" /\ index' = index + 1) =>
        LET t == y_final[index + 1]
            changed == {b \in 1..Len(hist_list) : hist_list'[b] # hist_list[b]}
        IN  /\ Cardinality(changed) <= 1
            /\ \A b \in changed : hist_list'[b] = Append(hist_list[b], des_y[index + 1])
            /\ OnBoundaryOrOutside(t) => changed = {}
            /\ CentersOf(t) # {} => Cardinality(changed) = 1

\* C9: the filling loop appends each sample's prediction to at most one bucket, the
\* open windows of the grid being pairwise disjoint; a sample on a window boundary,
\* at or below -0.25 or at or above 29.75 goes to no bucket; and the buckets together
\* hold as many predictions as there are samples strictly inside some window.
C9_AtMostOneBucket == [](C9_DisjointState) /\ [][C9_DisjointStep]_vars

\* C9 witness: of three samples, one on a window boundary, one below the grid and one
\* inside a window, only the last reached a bucket
C9_Witness ==
    /\ epc = "done"
    /\ y_final = <<2, -2, 3>>
    /\ energy_list = <<4>>
    /\ Total(hist_list, Len(hist_list)) = 1

ScanOrders(m) == {f \in [1..m -> 1..m] : \A a, b \in 1..m : a # b => f[a] # f[b]}

Occurrences(seq, v) == Cardinality({k \in 1..Len(seq) : seq[k] = v})

\* the bucket of center c in the result r of Evaluate
BucketOf(r, c) == r.h[CHOOSE b \in 1..Len(r.e) : r.e[b] = c]

SameBuckets(r, q) ==
    /\ {r.e[b] : b \in 1..Len(r.e)} = {q.e[b] : b \in 1..Len(q.e)}
    /\ Len(r.e) = Len(q.e)
    /\ \A b \in 1..Len(r.e) : \A v \in PredValues :
          Occurrences(r.h[b], v) = Occurrences(BucketOf(q, r.e[b]), v)

\* C10: scanning the evaluation samples in any other order yields the same set of
\* centers, and for each center a bucket with the same predictions as a multiset.
C10_ScanOrderIrrelevant ==
    epc = "done" =>
        \A f \in ScanOrders(Len(y_final)) :
            \A r \in {Evaluate([k \in 1..Len(y_final) |-> y_final[f[k]]],
                               [k \in 1..Len(y_final) |-> des_y[f[k]]])} :
                SameBuckets([e |-> energy_list, h |-> hist_list], r)

\* C10 witness: the centers were discovered in descending order, which the ascending
\* scan of the same samples would not do
C10_Witness ==
    /\ epc = "done"
    /\ y_final = <<237, 3, 1>>
    /\ energy_list = <<236, 4, 0>>
    /\ Evaluate(<<1, 3, 237>>, <<des_y[3], des_y[2], des_y[1]>>).e = <<0, 4, 236>>

(***************************************************************************)
(* The claim about the Scaler, checked under SpecScale.                    *)
(***************************************************************************)
\* the cell is a NaN
IsNaN(cell) == cell.nan

\* the cell is exactly 0: a finite, positive denominator under a zero numerator
IsZero(cell) == ~cell.nan /\ cell.dev = 0

\* the column the cell comes from is constant: no value differs from the mean
FromConstantColumn(cell) == cell.std.num = 0

ZeroWhereConstant(table) ==
    \A r \in 1..Len(table) : \A c \in 1..NumCols :
        FromConstantColumn(table[r][c]) => ~IsNaN(table[r][c]) /\ IsZero(table[r][c])

\* C6: for a table of at least one row the Scaler maps every constant column to 0 in
\* all rows and yields nothing that is not finite, a table of a single row included.
C6_ConstantColumnsToZero ==
    /\ spc \in {"test", "done"} => ZeroWhereConstant(x_tensor)
    /\ spc = "done" => ZeroWhereConstant(x_tensor_test)

====
